---- MODULE Spec2Model ----
(***************************************************************************)
(* Model of the test execution engine of cargo-atc                         *)
(* (src/atc/src/commands/test.rs): one run of test::execute, from the      *)
(* lookup of the problem directory to the verdict, with the supervision    *)
(* loop of return_results taken step by step against a clock and a child   *)
(* process that run on their own.                                          *)
(* The file system the run finds is fixed at the start; main (main.rs)     *)
(* ends the process once execute has returned.                             *)
(***************************************************************************)
EXTENDS Integers, Sequences, FiniteSets, TLC

(* ------------------------------------------------------------------ *)
(* Bounds of the model                                                 *)
(* ------------------------------------------------------------------ *)

\* Number of fixture stems that may exist under tests/.
MaxCases == 2

\* Longest text (in characters) the output comparison is checked on.
MaxLen == 3

\* Latest last_login_time (seconds) a stored session may carry.
MaxSkew == 2

(* ------------------------------------------------------------------ *)
(* Program constants                                                   *)
(* ------------------------------------------------------------------ *)

\* std::thread::sleep(Duration::from_millis(10)) between two polls.
SleepMs == 10

\* The clock of the model advances in steps of half a sleep.
Quantum == SleepMs \div 2

\* Timeouts (ms) a manifest may give: one below the sleep, and the sleep itself.
Timeouts == {Quantum, SleepMs}

\* elapsed() saturates here: every value from MaxTime on exceeds every timeout.
MaxTime == SleepMs + Quantum

ProblemName == "abc388_a"

\* const SESSION_EXPIRY: u64 = 86400 (seconds).
SESSION_EXPIRY == 86400

\* StatusCode::OK, the status submit_code accepts.
StatusOK == 200

\* StatusCode::FOUND, the status the documentation of submit_code names.
StatusFound == 302

\* The times (seconds) a stored session may carry, and the times a run may
\* start at: those, and the ones around SESSION_EXPIRY later.
LoginTimes == 0..MaxSkew
Nows == {t + d : t \in LoginTimes,
                 d \in {0, SESSION_EXPIRY - 1, SESSION_EXPIRY, SESSION_EXPIRY + 1}}

Min(a, b) == IF a < b THEN a ELSE b

(* ------------------------------------------------------------------ *)
(* Texts, bytes and the comparison of line 287                         *)
(* ------------------------------------------------------------------ *)

\* White_Space characters, the ones str::trim removes.
WhiteSpace == {"\n"}

\* Characters of a fixture text.
Chars == {"\n", "2"}

\* Bytes a child may write: the characters, and a byte that is not UTF-8.
InvalidByte == "xFF"
Bytes == Chars \cup {InvalidByte}

\* U+FFFD, which from_utf8_lossy puts in place of an invalid byte.
Replacement == "uFFFD"

SeqsUpTo(S, n) == UNION {[1..k -> S] : k \in 0..n}

\* String::from_utf8_lossy(&output.stdout).to_string()
from_utf8_lossy(bs) == [i \in 1..Len(bs) |-> IF bs[i] = InvalidByte THEN Replacement ELSE bs[i]]

RECURSIVE trim_start(_)
trim_start(s) ==
    IF s # <<>> /\ Head(s) \in WhiteSpace THEN trim_start(Tail(s)) ELSE s

RECURSIVE trim_end(_)
trim_end(s) ==
    IF s # <<>> /\ s[Len(s)] \in WhiteSpace
    THEN trim_end(SubSeq(s, 1, Len(s) - 1))
    ELSE s

\* trim as trim_start would do it: the white space at the end is kept.
trim_start_only(s) == trim_start(s)

\* str::trim
trim(s) == trim_end(trim_start(s))

(* ------------------------------------------------------------------ *)
(* Values                                                              *)
(* ------------------------------------------------------------------ *)

None == <<>>
Some(x) == <<x>>

Ok == [kind |-> "Ok", msg |-> ""]
Err(m) == [kind |-> "Err", msg |-> m]
Panic(m) == [kind |-> "Panic", msg |-> m]
NoRet == [kind |-> "none", msg |-> ""]

\* Result<Output, Box<dyn Error>> of the supervision loop.
NoResult == [kind |-> "none", stdout |-> <<>>, msg |-> ""]
OkOutput(bs) == [kind |-> "Ok", stdout |-> bs, msg |-> ""]
ErrResult(m) == [kind |-> "Err", stdout |-> <<>>, msg |-> m]

\* A file of tests/: its stem and its extension.
File(stem, ext) == [stem |-> stem, ext |-> ext]
Files == {File(s, e) : s \in 1..MaxCases, e \in {"in", "out"}}

\* The name of a file of tests/, as to_string_lossy gives it (lines 246-250).
file_name(f) == "sample_" \o ToString(f.stem) \o "." \o f.ext

\* The session file: absent, unreadable, no JSON of a Session, or a Session
\* with its last_login_time.
NoFile == [state |-> "absent", last_login_time |-> 0]

\* No Cargo.toml has been parsed, or the parsed value has been dropped.
NoManifest == [state |-> "none", table |-> {}]

\* The errors of one fixture's spawn / write / poll / read sequence.
FixtureIoErrors == {"spawn failed", "write failed", "try_wait failed", "wait_with_output failed"}

VARIABLES
    pc,               \* where execute / return_results stands
    ret,              \* what execute returned (or that it panicked)
    test_cases,       \* Vec<(PathBuf, PathBuf)> of collect_test_cases
    timeout_settings, \* HashMap<String, u64>, a function on the keys present
    timeout,          \* the limit return_results resolved
    idx,              \* fixtures the for loop has finished
    expected_output,  \* the expected output of the fixture under evaluation
    elapsed,          \* start_time.elapsed().as_millis(), as the clock stands
    wake_at,          \* the value of elapsed at which the sleep ends
    child,            \* the child of this iteration: none, running, exited_ok, exited_fail, killed
    exit_at,          \* the value of elapsed at which that child exited by itself
    alive,            \* fixtures (by position) whose child process is still running
    execution_result, \* what the supervision loop broke with
    results,          \* Vec<TestCaseResult>
    problem_dir,      \* work_dir/<problem> exists and is a directory
    tests_dir,        \* work_dir/<problem>/tests exists
    cargo_toml,       \* work_dir/Cargo.toml: missing, unparsable or readable
    executable,       \* work_dir/target/debug/<problem> exists when it is looked up
    builds,           \* the exit statuses cargo build has reported, in order
    entries,          \* what read_dir gave collect_test_cases, while it iterates
    warnings,         \* the input files collect_test_cases has warned about
    parsed,           \* the parsed Cargo.toml, while load_problem_timeout_settings holds it
    spawned,          \* child processes of the solution spawned so far
    exit_code,        \* the exit status of the cargo-atc process, once it has ended
    stdin,            \* the supervisor's end of the child's standard input: none, open, closed
    written,          \* the whole input of the fixture has been written to that pipe
    pipe,             \* the pipe while the input is written: room, full (write_all blocked), drained
    command,          \* login or submit: the entry point the session run is about
    spc,              \* where login::execute / submit::execute stands
    now,              \* SystemTime::now() in seconds since UNIX_EPOCH
    session_file,     \* the session file on disk
    session,          \* what Session::load gave, or login_to_atcoder returned
    expired,          \* what is_expired returned
    prompted,         \* the user has been asked for credentials
    contacted,        \* the requests sent to the site
    saves,            \* calls of Session::save that wrote the file
    login_ret,        \* what login::execute returned
    response,         \* the status of the response to the submit request
    submit_ret,       \* what submit_code returned
    cmp_actual,       \* the comparison taken alone: the child's output,
    cmp_expected,     \* the expected output,
    cmp_status        \* and the status it gives

vars == <<pc, ret, test_cases, timeout_settings, timeout, idx, expected_output,
          elapsed, wake_at, child, exit_at, alive, execution_result, results,
          problem_dir, tests_dir, cargo_toml, executable,
          builds, entries, warnings, parsed, spawned, exit_code,
          stdin, written, pipe,
          command, spc, now, session_file, session, expired, prompted, contacted,
          saves, login_ret, response, submit_ret,
          cmp_actual, cmp_expected, cmp_status>>

\* The child's standard input as the supervisor holds it (lines 254-261).
io_vars == <<stdin, written, pipe>>

\* The state of a login or submit run (commands/login.rs, commands/submit.rs).
web_vars == <<command, spc, now, session_file, session, expired, prompted, contacted,
              saves, login_ret, response, submit_ret>>

\* The file system as the run finds it; the run itself changes none of it.
env_vars == <<problem_dir, tests_dir, cargo_toml, executable>>

run_vars == <<pc, ret, test_cases, timeout_settings, timeout, idx, expected_output,
              elapsed, wake_at, child, exit_at, alive, execution_result, results,
              env_vars, builds, entries, warnings, parsed, spawned, exit_code,
              io_vars>>

cmp_vars == <<cmp_actual, cmp_expected, cmp_status>>

\* What the steps of the supervision loop leave alone.
aux_vars == <<cmp_vars, web_vars, env_vars, builds, entries, warnings, parsed, exit_code>>

Init ==
    /\ pc = "find_problem_directory"
    /\ ret = NoRet
    /\ test_cases = <<>>
    /\ timeout_settings = <<>>
    /\ timeout = 0
    /\ idx = 0
    /\ expected_output = <<>>
    /\ elapsed = 0
    /\ wake_at = 0
    /\ child = "none"
    /\ exit_at = 0
    /\ alive = {}
    /\ execution_result = NoResult
    /\ results = <<>>
    /\ problem_dir \in BOOLEAN
    /\ tests_dir \in {d \in BOOLEAN : d => problem_dir}
    /\ cargo_toml \in {"missing", "unparsable", "readable"}
    /\ executable \in BOOLEAN
    /\ builds = <<>>
    /\ entries = <<>>
    /\ warnings = {}
    /\ parsed = NoManifest
    /\ spawned = 0
    /\ exit_code = None
    /\ stdin = "none"
    /\ written = FALSE
    /\ pipe = "room"
    /\ command = "none"
    /\ spc = "idle"
    /\ now = 0
    /\ session_file = NoFile
    /\ session = None
    /\ expired = None
    /\ prompted = FALSE
    /\ contacted = {}
    /\ saves = 0
    /\ login_ret = NoRet
    /\ response = None
    /\ submit_ret = NoRet
    /\ cmp_actual = <<>>
    /\ cmp_expected = <<>>
    /\ cmp_status = "none"

(* ------------------------------------------------------------------ *)
(* execute, lines 39-44: the steps before the fixtures are run         *)
(* ------------------------------------------------------------------ *)

\* execute returns e through one of its `?`.
Return(e) ==
    /\ pc' = "done"
    /\ ret' = e

\* find_problem_directory without its check.
find_problem_directory_unchecked(is_dir) == Ok

\* Lines 118-122: Ok(dir) when the directory exists and is a directory.
find_problem_directory(is_dir) ==
    IF is_dir THEN Ok ELSE Err("Directory does not exist")

FindProblemDirectory ==
    /\ pc = "find_problem_directory"
    /\ LET r == find_problem_directory(problem_dir)
       IN IF r = Ok
          THEN pc' = "compile" /\ ret' = ret
          ELSE Return(r)
    /\ UNCHANGED <<test_cases, timeout_settings, timeout, idx, expected_output,
                   elapsed, wake_at, child, exit_at, alive, execution_result, results>>
    /\ UNCHANGED <<aux_vars, spawned, io_vars>>

\* compile with the status of the build left unread.
compile_unchecked(status) == Ok

\* Lines 135-139: the exit status cargo build reported.
compile(status) ==
    IF status = "success" THEN Ok ELSE Err("Compilation failed")

\* compile: cargo build cannot be started (the `?` of line 134), or it runs
\* and reports failure or success.
Compile ==
    /\ pc = "compile"
    /\ \E outcome \in {"no_cargo", "failure", "success"} :
        IF outcome = "no_cargo"
        THEN Return(Err("cargo could not be run")) /\ builds' = builds
        ELSE /\ builds' = Append(builds, outcome)
             /\ LET r == compile(outcome)
                IN IF r = Ok
                   THEN pc' = "collect_test_cases" /\ ret' = ret
                   ELSE Return(r)
    /\ UNCHANGED <<test_cases, timeout_settings, timeout, idx, expected_output,
                   elapsed, wake_at, child, exit_at, alive, execution_result, results>>
    /\ UNCHANGED <<cmp_vars, web_vars, io_vars, env_vars, entries, warnings, parsed, spawned, exit_code>>

\* The directory listings read_dir may give: some of the files, in some order.
RECURSIVE Orders(_)
Orders(S) ==
    IF S = {} THEN {<<>>}
    ELSE UNION {{<<f>> \o l : l \in Orders(S \ {f})} : f \in S}

Listings == UNION {Orders(S) : S \in SUBSET Files}

Range(l) == {l[i] : i \in 1..Len(l)}

\* The for loop of collect_test_cases taking every input file, paired or not.
RECURSIVE CollectEveryInput(_, _)
CollectEveryInput(list, present) ==
    IF list = <<>> THEN <<>>
    ELSE LET input_file_path == Head(list)
             output_file_path == File(input_file_path.stem, "out")
             rest == CollectEveryInput(Tail(list), present)
         IN IF input_file_path.ext = "in"
            THEN <<(<<input_file_path, output_file_path>>)>> \o rest
            ELSE rest

\* The for loop of collect_test_cases over the entries left, given the files present.
RECURSIVE CollectFrom(_, _)
CollectFrom(list, present) ==
    IF list = <<>> THEN <<>>
    ELSE LET input_file_path == Head(list)
             output_file_path == File(input_file_path.stem, "out")
             rest == CollectFrom(Tail(list), present)
         IN IF input_file_path.ext = "in" /\ output_file_path \in present
            THEN <<(<<input_file_path, output_file_path>>)>> \o rest
            ELSE rest

collect_test_cases(listing) == CollectFrom(listing, Range(listing))

\* Lines 167-169: the input files the loop warns about.
warned(listing) ==
    {f \in Range(listing) : f.ext = "in" /\ File(f.stem, "out") \notin Range(listing)}

\* Line 161: fs::read_dir(&tests_dir)?
ReadDir ==
    /\ pc = "collect_test_cases"
    /\ IF ~tests_dir
       THEN Return(Err("No such file or directory")) /\ entries' = entries
       ELSE \/ Return(Err("tests directory cannot be read")) /\ entries' = entries
            \/ \E listing \in Listings :
                /\ entries' = listing
                /\ pc' = "collect_entries"
                /\ ret' = ret
    /\ UNCHANGED <<test_cases, timeout_settings, timeout, idx, expected_output,
                   elapsed, wake_at, child, exit_at, alive, execution_result, results>>
    /\ UNCHANGED <<cmp_vars, web_vars, io_vars, env_vars, builds, warnings, parsed, spawned, exit_code>>

\* Lines 161-172: the loop over the entries, and Ok(test_cases).
CollectEntries ==
    /\ pc = "collect_entries"
    /\ test_cases' = collect_test_cases(entries)
    /\ warnings' = warned(entries)
    /\ entries' = <<>>
    /\ pc' = "load_problem_timeout_settings"
    /\ UNCHANGED <<ret, timeout_settings, timeout, idx, expected_output,
                   elapsed, wake_at, child, exit_at, alive, execution_result, results>>
    /\ UNCHANGED <<cmp_vars, web_vars, io_vars, env_vars, builds, parsed, spawned, exit_code>>

CollectTestCases == ReadDir \/ CollectEntries

\* The key every table of the model holds besides the problem's: the name of
\* a fixture, with a limit of its own.
FixtureKey == file_name(File(1, "in"))
FixtureEntry == [key |-> FixtureKey, int |-> TRUE, ms |-> Quantum]

\* The entries a [package.metadata.timeout] table may hold for the problem:
\* an integer number of milliseconds, or a value that is no integer.
TableEntries ==
    {[key |-> ProblemName, int |-> TRUE, ms |-> t] : t \in Timeouts}
        \cup {[key |-> ProblemName, int |-> FALSE, ms |-> 0]}

\* Tables with at most one entry per key: the fixture's, and the problem's or none.
Tables ==
    {t \cup {FixtureEntry} : t \in {u \in SUBSET TableEntries : Cardinality(u) <= 1}}

\* What toml::from_str may give for a Cargo.toml that parses: no
\* package.metadata.timeout at all, one that is no table, or a table.
Manifests ==
    {[state |-> s, table |-> {}] : s \in {"no_section", "not_table"}}
        \cup {[state |-> "table", table |-> t] : t \in Tables}

\* Lines 202-207 letting every Cargo.toml through.
read_cargo_toml_lenient(file) == Ok

\* Lines 202-207: the file must exist, be read and parse.
read_cargo_toml(file) ==
    CASE file = "missing" -> Err("Cargo.toml not found in the current directory")
      [] file = "unparsable" -> Err("Cargo.toml cannot be parsed")
      [] OTHER -> Ok

\* Lines 215-221: the integer entries of the table, the others skipped.
timeout_map(table) ==
    LET ints == {e \in table : e.int}
    IN [k \in {e.key : e \in ints} |-> (CHOOSE e \in ints : e.key = k).ms]

\* Lines 201-207: Cargo.toml is looked up, read and parsed.
ReadCargoToml ==
    /\ pc = "load_problem_timeout_settings"
    /\ LET r == read_cargo_toml(cargo_toml)
       IN IF r = Ok
          THEN \E m \in Manifests :
                /\ parsed' = m
                /\ pc' = "timeout_section"
                /\ ret' = ret
          ELSE Return(r) /\ parsed' = parsed
    /\ UNCHANGED <<test_cases, timeout_settings, timeout, idx, expected_output,
                   elapsed, wake_at, child, exit_at, alive, execution_result, results>>
    /\ UNCHANGED <<cmp_vars, web_vars, io_vars, env_vars, builds, entries, warnings, spawned, exit_code>>

\* Lines 209-226: the timeout section is taken out of the parsed value and
\* turned into the map.
TimeoutSection ==
    /\ pc = "timeout_section"
    /\ parsed' = NoManifest
    /\ CASE parsed.state = "no_section" ->
                Return(Err("Timeout section not found in Cargo.toml"))
                    /\ timeout_settings' = timeout_settings
         [] parsed.state = "not_table" ->
                Return(Err("Timeout section is not a table"))
                    /\ timeout_settings' = timeout_settings
         [] parsed.state = "table" ->
                /\ timeout_settings' = timeout_map(parsed.table)
                /\ pc' = "return_results"
                /\ ret' = ret
    /\ UNCHANGED <<test_cases, timeout, idx, expected_output,
                   elapsed, wake_at, child, exit_at, alive, execution_result, results>>
    /\ UNCHANGED <<cmp_vars, web_vars, io_vars, env_vars, builds, entries, warnings, spawned, exit_code>>

LoadProblemTimeoutSettings == ReadCargoToml \/ TimeoutSection

(* ------------------------------------------------------------------ *)
(* return_results, lines 229-315                                       *)
(* ------------------------------------------------------------------ *)

\* return_results returns Err(m): execute unwraps the result (line 44) and panics.
Abort(m) == Return(Panic(m))

\* Lines 235-241: the executable is looked up, then the timeout of the problem
\* is taken out of the map and unwrapped.
ReturnResultsEnter ==
    /\ pc = "return_results"
    /\ IF ~executable
       THEN Abort("Executable for problem not found") /\ timeout' = timeout
       ELSE IF ProblemName \notin DOMAIN timeout_settings
       THEN Return(Panic("called Option::unwrap() on a None value")) /\ timeout' = timeout
       ELSE /\ timeout' = timeout_settings[ProblemName]
            /\ pc' = "for"
            /\ ret' = ret
    /\ UNCHANGED <<test_cases, timeout_settings, idx, expected_output,
                   elapsed, wake_at, child, exit_at, alive, execution_result, results>>
    /\ UNCHANGED <<aux_vars, spawned, io_vars>>

\* Within a run: the expected output a fixture holds, and what a child may
\* write (the same text, the text without its line break, another text, a byte
\* that is no text).
Texts == {<<"2", "\n">>}
Outputs == {<<"2", "\n">>, <<"2">>, <<"2", "2">>, <<InvalidByte>>}

\* The statements of the loop body during which start_time is set.
TimedPcs == {"spawn", "write", "loop", "try_wait", "sleep", "wait_with_output", "after_loop"}

\* The supervision loop, lines 263-282.
LoopPcs == {"loop", "try_wait", "sleep", "wait_with_output"}

\* The fixture under evaluation, by position in test_cases.
cur == idx + 1

\* The check of line 264 with >= in place of >.
TimedOutAtLimit(e, t) == e >= t

\* The check of line 264 with the elapsed time taken in seconds.
TimedOutInSeconds(e, t) == e \div 1000 > t

\* Line 264: start_time.elapsed().as_millis() > timeout as u128
TimedOut(e, t) == e > t

\* The timeout branch without its kill.
kill_nothing(c) == c

\* Line 266: child.kill(), which ends a running child and leaves an exited one as it is.
kill(c) == IF c = "running" THEN "killed" ELSE c

\* The match of lines 284-300 with the error text kept for TLE as well.
JudgeTleMessage(result, expected, execution_time, limit) ==
    IF result.kind = "Ok"
    THEN LET actual_output == from_utf8_lossy(result.stdout)
         IN IF trim(actual_output) = trim(expected)
            THEN [actual_output |-> actual_output, status |-> "AC", error_message |-> None]
            ELSE [actual_output |-> actual_output, status |-> "WA", error_message |-> None]
    ELSE IF execution_time > limit
         THEN [actual_output |-> <<>>, status |-> "TLE", error_message |-> Some(result.msg)]
         ELSE [actual_output |-> <<>>, status |-> "RE", error_message |-> Some(result.msg)]

\* The match of lines 284-300 comparing the two outputs as they are.
JudgeUntrimmed(result, expected, execution_time, limit) ==
    IF result.kind = "Ok"
    THEN LET actual_output == from_utf8_lossy(result.stdout)
         IN IF actual_output = expected
            THEN [actual_output |-> actual_output, status |-> "AC", error_message |-> None]
            ELSE [actual_output |-> actual_output, status |-> "WA", error_message |-> None]
    ELSE IF execution_time > limit
         THEN [actual_output |-> <<>>, status |-> "TLE", error_message |-> None]
         ELSE [actual_output |-> <<>>, status |-> "RE", error_message |-> Some(result.msg)]

\* Lines 284-300: the output, the status and the error message of a fixture.
Judge(result, expected, execution_time, limit) ==
    IF result.kind = "Ok"
    THEN LET actual_output == from_utf8_lossy(result.stdout)
         IN IF trim(actual_output) = trim(expected)
            THEN [actual_output |-> actual_output, status |-> "AC", error_message |-> None]
            ELSE [actual_output |-> actual_output, status |-> "WA", error_message |-> None]
    ELSE IF execution_time > limit
         THEN [actual_output |-> <<>>, status |-> "TLE", error_message |-> None]
         ELSE [actual_output |-> <<>>, status |-> "RE", error_message |-> Some(result.msg)]

\* Lines 302-307: the TestCaseResult pushed for a fixture.
TestCaseResult(name, judged, execution_time) ==
    [test_case_name |-> name,
     status |-> judged.status,
     execution_time |-> execution_time,
     error_message |-> judged.error_message]

\* The verdict of line 58 with any in place of all.
any_ac(rs) == \E i \in 1..Len(rs) : rs[i].status = "AC"

\* The verdict of line 58 asking for at least one result as well.
all_ac_nonempty(rs) == rs # <<>> /\ \A i \in 1..Len(rs) : rs[i].status = "AC"

\* Line 58: results.iter().all(|res| res.status == TestStatus::AC)
all_ac(rs) == \A i \in 1..Len(rs) : rs[i].status = "AC"

\* A loop that is left after its first fixture.
HasNextOnlyOnce(i, cases) == i < Len(cases) /\ i < 1

\* Line 243: the iterator of the for loop has a fixture left after i of them.
HasNext(i, cases) == i < Len(cases)

\* Line 243 and lines 244-250: the for loop takes the next fixture and reads its
\* two files, or, the fixtures exhausted, return_results returns Ok(results).
ForNext ==
    /\ pc = "for"
    /\ IF ~HasNext(idx, test_cases)
       THEN pc' = "summary" /\ ret' = ret /\ expected_output' = expected_output
       ELSE \/ Abort("fixture cannot be read") /\ expected_output' = expected_output
            \/ \E e \in Texts :
                /\ expected_output' = e
                /\ pc' = "start_time"
                /\ ret' = ret
    /\ UNCHANGED <<test_cases, timeout_settings, timeout, idx,
                   elapsed, wake_at, child, exit_at, alive, execution_result, results>>
    /\ UNCHANGED <<aux_vars, spawned, io_vars>>

\* Line 252: let start_time = Instant::now()
StartTime ==
    /\ pc = "start_time"
    /\ elapsed' = 0
    /\ pc' = "spawn"
    /\ UNCHANGED <<ret, test_cases, timeout_settings, timeout, idx, expected_output,
                   wake_at, child, exit_at, alive, execution_result, results>>
    /\ UNCHANGED <<aux_vars, spawned, io_vars>>

\* return_results returns Err(m) from inside the loop body: the locals of the
\* iteration are dropped, the Child handle among them, which neither kills nor
\* waits for the process.
AbortFixture(m) ==
    /\ Abort(m)
    /\ expected_output' = <<>>
    /\ elapsed' = 0
    /\ wake_at' = 0
    /\ child' = "none"
    /\ exit_at' = 0
    /\ execution_result' = NoResult
    /\ stdin' = "none"
    /\ written' = FALSE
    /\ pipe' = "room"

\* Lines 253-257: Command::new(&executable)...spawn()?
Spawn ==
    /\ pc = "spawn"
    /\ \/ AbortFixture("spawn failed") /\ alive' = alive /\ spawned' = spawned
       \/ /\ child' = "running"
          /\ alive' = alive \cup {cur}
          /\ spawned' = spawned + 1
          /\ stdin' = "open"
          /\ pc' = "write"
          /\ UNCHANGED <<ret, expected_output, elapsed, wake_at, exit_at, execution_result,
                         written, pipe>>
    /\ UNCHANGED <<test_cases, timeout_settings, timeout, idx, results>>
    /\ UNCHANGED aux_vars

\* Line 260: write_all returns Ok only when all of the input is written.
write_all(w) == TRUE

\* The handle kept after the write.
keep_stdin(h) == h

\* Line 261: stdin goes out of scope at the end of the if let, which closes the pipe.
drop_stdin(h) == "closed"

\* Lines 259-261: stdin.write_all(input.as_bytes())?, the pipe closed when
\* stdin is dropped. The call blocks for as long as the pipe is full.
WriteInput ==
    /\ pc = "write"
    /\ pipe # "full"
    /\ \/ AbortFixture("write failed")
       \/ /\ written' = write_all(written)
          /\ stdin' = drop_stdin(stdin)
          /\ pipe' = "room"
          /\ pc' = "loop"
          /\ UNCHANGED <<ret, expected_output, elapsed, wake_at, child, exit_at, execution_result>>
    /\ UNCHANGED <<test_cases, timeout_settings, timeout, idx, alive, results>>
    /\ UNCHANGED <<aux_vars, spawned>>

\* The limit taken from the entry the table holds under the fixture's own
\* name, when it holds one.
LimitByFixture ==
    LET name == file_name(test_cases[cur][1])
    IN IF name \in DOMAIN timeout_settings THEN timeout_settings[name] ELSE timeout

\* Lines 264 and 294: the limit a fixture is held to, `timeout as u128`.
Limit == timeout

\* Lines 264-268: the head of the loop, the timeout checked before the child is polled.
LoopCheck ==
    /\ pc = "loop"
    /\ IF TimedOut(elapsed, Limit)
       THEN /\ child' = kill(child)
            /\ alive' = IF child' = "running" THEN alive ELSE alive \ {cur}
            /\ execution_result' = ErrResult("Execution timed out")
            /\ pc' = "after_loop"
       ELSE /\ pc' = "try_wait"
            /\ UNCHANGED <<child, alive, execution_result>>
    /\ UNCHANGED <<ret, test_cases, timeout_settings, timeout, idx, expected_output,
                   elapsed, wake_at, exit_at, results>>
    /\ UNCHANGED <<aux_vars, spawned, io_vars>>

\* Lines 269-281: child.try_wait()? and its match.
TryWait ==
    /\ pc = "try_wait"
    /\ \/ AbortFixture("try_wait failed")
       \/ /\ child = "exited_ok"
          /\ pc' = "wait_with_output"
          /\ UNCHANGED <<ret, expected_output, elapsed, wake_at, child, exit_at, execution_result, io_vars>>
       \/ /\ child = "exited_fail"
          /\ execution_result' = ErrResult("Execution failed")
          /\ pc' = "after_loop"
          /\ UNCHANGED <<ret, expected_output, elapsed, wake_at, child, exit_at, io_vars>>
       \/ /\ child = "running"
          /\ wake_at' = Min(elapsed + SleepMs, MaxTime)
          /\ pc' = "sleep"
          /\ UNCHANGED <<ret, expected_output, elapsed, child, exit_at, execution_result, io_vars>>
    /\ UNCHANGED <<test_cases, timeout_settings, timeout, idx, alive, results>>
    /\ UNCHANGED <<aux_vars, spawned>>

\* Line 279: the sleep ends once its 10 ms have passed, and the loop starts over.
Sleep ==
    /\ pc = "sleep"
    /\ elapsed >= wake_at
    /\ pc' = "loop"
    /\ wake_at' = 0
    /\ UNCHANGED <<ret, test_cases, timeout_settings, timeout, idx, expected_output,
                   elapsed, child, exit_at, alive, execution_result, results>>
    /\ UNCHANGED <<aux_vars, spawned, io_vars>>

\* Lines 272-273: child.wait_with_output()? reads what the child wrote.
WaitWithOutput ==
    /\ pc = "wait_with_output"
    /\ \/ AbortFixture("wait_with_output failed")
       \/ \E stdout \in Outputs :
            /\ execution_result' = OkOutput(stdout)
            /\ pc' = "after_loop"
            /\ UNCHANGED <<ret, expected_output, elapsed, wake_at, child, exit_at, io_vars>>
    /\ UNCHANGED <<test_cases, timeout_settings, timeout, idx, alive, results>>
    /\ UNCHANGED <<aux_vars, spawned>>

\* A push that overwrites the last result instead of adding one.
push_over(rs, r) == IF rs = <<>> THEN <<r>> ELSE [rs EXCEPT ![Len(rs)] = r]

\* Line 302: results.push(...)
push(rs, r) == Append(rs, r)

\* Lines 283-313: the elapsed time is read again, the fixture is judged and its
\* result pushed; the iteration ends and its locals are dropped.
Classify ==
    /\ pc = "after_loop"
    /\ LET execution_time == elapsed
           judged == Judge(execution_result, expected_output, execution_time, Limit)
       IN results' = push(results,
                TestCaseResult(test_cases[cur][1], judged, execution_time))
    /\ idx' = idx + 1
    /\ pc' = "for"
    /\ expected_output' = <<>>
    /\ elapsed' = 0
    /\ child' = "none"
    /\ exit_at' = 0
    /\ execution_result' = NoResult
    /\ stdin' = "none"
    /\ written' = FALSE
    /\ pipe' = "room"
    /\ UNCHANGED <<ret, test_cases, timeout_settings, timeout, wake_at, alive>>
    /\ UNCHANGED <<aux_vars, spawned>>

\* Lines 46-62: the summary is printed and the verdict returned.
Summary ==
    /\ pc = "summary"
    /\ pc' = "done"
    /\ ret' = IF all_ac(results) THEN Ok ELSE Err("Some tests failed.")
    /\ UNCHANGED <<test_cases, timeout_settings, timeout, idx, expected_output,
                   elapsed, wake_at, child, exit_at, alive, execution_result, results>>
    /\ UNCHANGED <<aux_vars, spawned, io_vars>>

\* main.rs, lines 28-32 and 40: main prints the error execute returned and
\* returns; a panic of execute ends the process with status 101.
exit_status(r) == IF r.kind = "Panic" THEN 101 ELSE 0

Main ==
    /\ pc = "done"
    /\ pc' = "exited"
    /\ exit_code' = Some(exit_status(ret))
    /\ UNCHANGED <<ret, test_cases, timeout_settings, timeout, idx, expected_output,
                   elapsed, wake_at, child, exit_at, alive, execution_result, results>>
    /\ UNCHANGED <<cmp_vars, web_vars, io_vars, env_vars, builds, entries, warnings, parsed, spawned>>

(* ------------------------------------------------------------------ *)
(* The environment: the clock and the child process                    *)
(* ------------------------------------------------------------------ *)

\* Time passes while a fixture is evaluated.
Tick ==
    /\ pc \in TimedPcs
    /\ elapsed < MaxTime
    /\ elapsed' = Min(elapsed + Quantum, MaxTime)
    /\ UNCHANGED <<pc, ret, test_cases, timeout_settings, timeout, idx, expected_output,
                   wake_at, child, exit_at, alive, execution_result, results>>
    /\ UNCHANGED <<aux_vars, spawned, io_vars>>

\* The running child exits by itself, with a success code or without.
ChildExit ==
    /\ pc \in {"write", "loop", "try_wait", "sleep"}
    /\ child = "running"
    /\ \E success \in BOOLEAN :
        child' = IF success THEN "exited_ok" ELSE "exited_fail"
    /\ exit_at' = elapsed
    /\ alive' = alive \ {cur}
    /\ pipe' = IF pipe = "full" THEN "drained" ELSE pipe
    /\ UNCHANGED <<pc, ret, test_cases, timeout_settings, timeout, idx, expected_output,
                   elapsed, wake_at, execution_result, results, stdin, written>>
    /\ UNCHANGED <<aux_vars, spawned>>

\* The input does not fit into what is left of the pipe and the child is not
\* reading: write_all is blocked.
PipeFills ==
    /\ pc = "write"
    /\ child = "running"
    /\ pipe = "room"
    /\ pipe' = "full"
    /\ UNCHANGED <<pc, ret, test_cases, timeout_settings, timeout, idx, expected_output,
                   elapsed, wake_at, child, exit_at, alive, execution_result, results,
                   stdin, written>>
    /\ UNCHANGED <<aux_vars, spawned>>

\* The child reads from its standard input and the rest of the input fits.
ChildReads ==
    /\ pc = "write"
    /\ child = "running"
    /\ pipe = "full"
    /\ pipe' = "drained"
    /\ UNCHANGED <<pc, ret, test_cases, timeout_settings, timeout, idx, expected_output,
                   elapsed, wake_at, child, exit_at, alive, execution_result, results,
                   stdin, written>>
    /\ UNCHANGED <<aux_vars, spawned>>

(* ------------------------------------------------------------------ *)
(* Specifications                                                      *)
(* ------------------------------------------------------------------ *)

Supervisor ==
    \/ FindProblemDirectory
    \/ Compile
    \/ CollectTestCases
    \/ LoadProblemTimeoutSettings
    \/ ReturnResultsEnter
    \/ ForNext
    \/ StartTime
    \/ Spawn
    \/ WriteInput
    \/ LoopCheck
    \/ TryWait
    \/ Sleep
    \/ WaitWithOutput
    \/ Classify
    \/ Summary
    \/ Main

Next ==
    \/ Supervisor
    \/ Tick
    \/ ChildExit
    \/ PipeFills
    \/ ChildReads

Spec == Init /\ [][Next]_vars

\* The supervisor takes its next step when it has one, and time does not stop.
FairSpec == Spec /\ WF_vars(Supervisor) /\ WF_vars(Tick)

\* The comparison taken alone: any output of a child that exited in time with
\* success, against any expected output.
InitCompare ==
    /\ pc = "done"
    /\ ret = NoRet
    /\ test_cases = <<>>
    /\ timeout_settings = <<>>
    /\ timeout = 0
    /\ idx = 0
    /\ expected_output = <<>>
    /\ elapsed = 0
    /\ wake_at = 0
    /\ child = "none"
    /\ exit_at = 0
    /\ alive = {}
    /\ execution_result = NoResult
    /\ results = <<>>
    /\ problem_dir = TRUE
    /\ tests_dir = TRUE
    /\ cargo_toml = "readable"
    /\ executable = TRUE
    /\ builds = <<>>
    /\ entries = <<>>
    /\ warnings = {}
    /\ parsed = NoManifest
    /\ spawned = 0
    /\ exit_code = None
    /\ stdin = "none"
    /\ written = FALSE
    /\ pipe = "room"
    /\ command = "none"
    /\ spc = "idle"
    /\ now = 0
    /\ session_file = NoFile
    /\ session = None
    /\ expired = None
    /\ prompted = FALSE
    /\ contacted = {}
    /\ saves = 0
    /\ login_ret = NoRet
    /\ response = None
    /\ submit_ret = NoRet
    /\ cmp_actual \in SeqsUpTo(Bytes, MaxLen)
    /\ cmp_expected \in SeqsUpTo(Chars, MaxLen)
    /\ cmp_status = "none"

CompareOutputs ==
    /\ cmp_status = "none"
    /\ cmp_status' = Judge(OkOutput(cmp_actual), cmp_expected, 0, 0).status
    /\ UNCHANGED <<cmp_actual, cmp_expected>>
    /\ UNCHANGED <<run_vars, web_vars>>

NextCompare == CompareOutputs

SpecCompare == InitCompare /\ [][NextCompare]_vars

(* ------------------------------------------------------------------ *)
(* login::execute and submit::execute                                  *)
(* (commands/login.rs, commands/submit.rs)                             *)
(* ------------------------------------------------------------------ *)

\* The session files a run may find: none, one that cannot be read, one that
\* is no JSON of a Session, and a Session with its last_login_time.
SessionFiles ==
    {[state |-> st, last_login_time |-> 0] : st \in {"absent", "unreadable", "corrupt"}}
        \cup {[state |-> "session", last_login_time |-> t] : t \in LoginTimes}

\* Session::load giving None for every file.
load_nothing(file) == None

\* Lines 62-70: None for a missing file and for one that does not parse.
load(file) ==
    IF file.state = "session"
    THEN Some([last_login_time |-> file.last_login_time])
    ELSE None

\* is_expired with >= in place of >.
is_expired_inclusive(current_time, last_login_time) ==
    current_time - last_login_time >= SESSION_EXPIRY

\* Line 81: current_time - self.last_login_time > SESSION_EXPIRY
is_expired(current_time, last_login_time) ==
    current_time - last_login_time > SESSION_EXPIRY

\* The requests login_to_atcoder sends.
LoginRequests == {"GET /login", "POST /login"}

\* Line 22: Session::load(&session_path)?
LoadSession ==
    /\ spc = "load"
    /\ IF session_file.state = "unreadable"
       THEN /\ login_ret' = Err("session file cannot be read")
            /\ spc' = "login_done"
            /\ session' = session
       ELSE /\ session' = load(session_file)
            /\ spc' = IF session' = None THEN "prompt" ELSE "is_expired"
            /\ login_ret' = login_ret
    /\ UNCHANGED <<command, now, session_file, expired, prompted, contacted, saves,
                   response, submit_ret>>
    /\ UNCHANGED <<run_vars, cmp_vars>>

\* Lines 23-25 and 76-82. The subtraction of line 81 is on u64: with a
\* last_login_time later than now it panics where overflow checks are on, and
\* wraps to a number above SESSION_EXPIRY where they are off.
IsExpired ==
    /\ spc = "is_expired"
    /\ LET last == session[1].last_login_time
       IN IF last > now
          THEN \/ /\ login_ret' = Panic("attempt to subtract with overflow")
                  /\ spc' = "login_done"
                  /\ expired' = expired
               \/ /\ expired' = Some(TRUE)
                  /\ spc' = "prompt"
                  /\ login_ret' = login_ret
          ELSE /\ expired' = Some(is_expired(now, last))
               /\ IF expired' = Some(FALSE)
                  THEN login_ret' = Ok /\ spc' = "login_done"
                  ELSE login_ret' = login_ret /\ spc' = "prompt"
    /\ UNCHANGED <<command, now, session_file, session, prompted, contacted, saves,
                   response, submit_ret>>
    /\ UNCHANGED <<run_vars, cmp_vars>>

\* Lines 28-30: get_credentials asks for the user id and the password.
GetCredentials ==
    /\ spc = "prompt"
    /\ prompted' = TRUE
    /\ \/ /\ login_ret' = Err("credentials could not be read")
          /\ spc' = "login_done"
       \/ /\ spc' = "login_to_atcoder"
          /\ login_ret' = login_ret
    /\ UNCHANGED <<command, now, session_file, session, expired, contacted, saves,
                   response, submit_ret>>
    /\ UNCHANGED <<run_vars, cmp_vars>>

\* Lines 31-33 and 158-192: the token is fetched, the form posted, the
\* response validated and the cookie taken; the Session returned is dated now.
LoginToAtcoder ==
    /\ spc = "login_to_atcoder"
    /\ \/ /\ contacted' = contacted \cup {"GET /login"}
          /\ login_ret' = Err("login failed")
          /\ spc' = "login_done"
          /\ session' = session
       \/ /\ contacted' = contacted \cup LoginRequests
          /\ login_ret' = Err("login failed")
          /\ spc' = "login_done"
          /\ session' = session
       \/ /\ contacted' = contacted \cup LoginRequests
          /\ session' = Some([last_login_time |-> now])
          /\ spc' = "save"
          /\ login_ret' = login_ret
    /\ UNCHANGED <<command, now, session_file, expired, prompted, saves,
                   response, submit_ret>>
    /\ UNCHANGED <<run_vars, cmp_vars>>

\* Lines 34-36 and 49-58: the session is written; a write that fails may have
\* truncated the file already.
Save ==
    /\ spc = "save"
    /\ \/ /\ session_file' = [state |-> "session",
                              last_login_time |-> session[1].last_login_time]
          /\ saves' = saves + 1
          /\ login_ret' = Ok
       \/ /\ session_file' \in {session_file, [state |-> "corrupt", last_login_time |-> 0]}
          /\ saves' = saves
          /\ login_ret' = Err("session file cannot be written")
    /\ spc' = "login_done"
    /\ UNCHANGED <<command, now, session, expired, prompted, contacted,
                   response, submit_ret>>
    /\ UNCHANGED <<run_vars, cmp_vars>>

\* login::execute has returned: the login command ends; submit::execute goes
\* on (submit.rs line 48) or returns the error.
LoginReturns ==
    /\ spc = "login_done"
    /\ IF command = "login"
       THEN spc' = "done" /\ submit_ret' = submit_ret
       ELSE IF login_ret = Ok
       THEN spc' = "submit_load" /\ submit_ret' = submit_ret
       ELSE spc' = "done" /\ submit_ret' = login_ret
    /\ UNCHANGED <<command, now, session_file, session, expired, prompted, contacted,
                   saves, login_ret, response>>
    /\ UNCHANGED <<run_vars, cmp_vars>>

\* submit.rs lines 49-64: the session is loaded again, the contest and the
\* source are read.
PrepareSubmission ==
    /\ spc = "submit_load"
    /\ IF session_file.state = "unreadable"
       THEN submit_ret' = Err("session file cannot be read") /\ spc' = "done"
       ELSE IF load(session_file) = None
       THEN submit_ret' = Err("no session") /\ spc' = "done"
       ELSE \/ submit_ret' = Err("contest or source cannot be read") /\ spc' = "done"
            \/ submit_ret' = submit_ret /\ spc' = "submit_code"
    /\ UNCHANGED <<command, now, session_file, session, expired, prompted, contacted,
                   saves, login_ret, response>>
    /\ UNCHANGED <<run_vars, cmp_vars>>

\* The statuses the response to the submit request may carry.
Statuses == {StatusOK, StatusFound, 403}

\* submit.rs lines 209-217: the request is sent and awaited.
SendSubmission ==
    /\ spc = "submit_code"
    /\ contacted' = contacted \cup {"POST /submit"}
    /\ \/ /\ submit_ret' = Err("request could not be sent")
          /\ spc' = "done"
          /\ response' = response
       \/ \E status \in Statuses :
            /\ response' = Some(status)
            /\ spc' = "submit_status"
            /\ submit_ret' = submit_ret
    /\ UNCHANGED <<command, now, session_file, session, expired, prompted,
                   saves, login_ret>>
    /\ UNCHANGED <<run_vars, cmp_vars>>

\* submit.rs line 218: response.status() == StatusCode::OK
accepted(status) == status = StatusOK

\* submit.rs lines 218-222, and 65-67 of execute.
CheckResponse ==
    /\ spc = "submit_status"
    /\ submit_ret' = IF accepted(response[1]) THEN Ok ELSE Err("submission failed")
    /\ spc' = "done"
    /\ UNCHANGED <<command, now, session_file, session, expired, prompted, contacted,
                   saves, login_ret, response>>
    /\ UNCHANGED <<run_vars, cmp_vars>>

\* A login or a submit command, on any session file, at any time of the model.
InitSession ==
    /\ pc = "done"
    /\ ret = NoRet
    /\ test_cases = <<>>
    /\ timeout_settings = <<>>
    /\ timeout = 0
    /\ idx = 0
    /\ expected_output = <<>>
    /\ elapsed = 0
    /\ wake_at = 0
    /\ child = "none"
    /\ exit_at = 0
    /\ alive = {}
    /\ execution_result = NoResult
    /\ results = <<>>
    /\ problem_dir = TRUE
    /\ tests_dir = TRUE
    /\ cargo_toml = "readable"
    /\ executable = TRUE
    /\ builds = <<>>
    /\ entries = <<>>
    /\ warnings = {}
    /\ parsed = NoManifest
    /\ spawned = 0
    /\ exit_code = None
    /\ stdin = "none"
    /\ written = FALSE
    /\ pipe = "room"
    /\ command \in {"login", "submit"}
    /\ spc = "load"
    /\ now \in Nows
    /\ session_file \in SessionFiles
    /\ session = None
    /\ expired = None
    /\ prompted = FALSE
    /\ contacted = {}
    /\ saves = 0
    /\ login_ret = NoRet
    /\ response = None
    /\ submit_ret = NoRet
    /\ cmp_actual = <<>>
    /\ cmp_expected = <<>>
    /\ cmp_status = "none"

NextSession ==
    \/ LoadSession
    \/ IsExpired
    \/ GetCredentials
    \/ LoginToAtcoder
    \/ Save
    \/ LoginReturns
    \/ PrepareSubmission
    \/ SendSubmission
    \/ CheckResponse

SpecSession == InitSession /\ [][NextSession]_vars

(* ------------------------------------------------------------------ *)
(* Properties                                                          *)
(* ------------------------------------------------------------------ *)

\* The step that judges a fixture and pushes its result (lines 283-313).
ClassifyStep == pc = "after_loop" /\ pc' = "for"

\* The result that step pushes.
Pushed == results'[Len(results')]

EveryResultAC == \A i \in 1..Len(results) : results[i].status = "AC"

SuiteFailed == Err("Some tests failed.")

\* C1: once execute has returned (and not panicked), it returned Ok only with
\* one AC result per fixture collected; a result that is not AC makes it return
\* the error "Some tests failed.", and that error is returned for no other
\* reason; results that are all AC make it return Ok.
C1_Thm ==
    (pc = "done" /\ ret.kind # "Panic") =>
        /\ ret = Ok => (EveryResultAC /\ Len(results) = Len(test_cases))
        /\ ~EveryResultAC => ret = SuiteFailed
        /\ ret = SuiteFailed => ~EveryResultAC
        /\ (EveryResultAC /\ results # <<>>) => ret = Ok

\* C1 witness: a run of two fixtures, the first AC and the second not, has
\* returned the error.
C1_Witness ==
    /\ pc = "done"
    /\ ret = SuiteFailed
    /\ Len(results) = 2
    /\ results[1].status = "AC"
    /\ results[2].status = "WA"

\* C2, as claimed: every result whose recorded execution_time exceeds the
\* timeout has status TLE.
C2_Claim ==
    \A i \in 1..Len(results) :
        results[i].execution_time > timeout => results[i].status = "TLE"

\* C3: when the child of a fixture has exited with success and the elapsed time
\* recorded for the fixture does not exceed the timeout, the loop has read the
\* child's output, and if that output and the expected output are equal once
\* trimmed, the result pushed has status AC.
C3_Thm ==
    [][(ClassifyStep /\ child = "exited_ok" /\ elapsed <= timeout) =>
            /\ execution_result.kind = "Ok"
            /\ Pushed.execution_time = elapsed
            /\ (trim(from_utf8_lossy(execution_result.stdout)) = trim(expected_output)
                    => Pushed.status = "AC")]_vars

\* C3 witness: an AC result recorded within the timeout, after time has passed.
C3_Witness ==
    /\ pc = "for"
    /\ Len(results) = 1
    /\ results[1].status = "AC"
    /\ results[1].execution_time <= timeout
    /\ results[1].execution_time > 0

\* C4, as claimed: a child that exits with success at a time that does not
\* exceed the timeout gets AC or WA, never TLE or RE.
C4_Claim ==
    [][(ClassifyStep /\ child = "exited_ok" /\ exit_at <= timeout) =>
            Pushed.status \in {"AC", "WA"}]_vars

\* C5, as claimed: a child that exits without success before the timeout is
\* exceeded gets RE and an error message that is not empty. Stated for the
\* exits the supervisor itself saw in a poll that its timeout check let through.
C5_Claim ==
    [][(ClassifyStep /\ child = "exited_fail" /\ exit_at <= timeout
            /\ execution_result = ErrResult("Execution failed")) =>
            /\ Pushed.status = "RE"
            /\ Pushed.error_message # None
            /\ Pushed.error_message # Some("")]_vars

\* C6, as claimed: a failure to spawn the child, to write its input, to poll
\* it or to read its output never ends the run; the fixture gets a result.
C6_Claim ==
    ~(pc = "done" /\ ret.msg \in FixtureIoErrors)

IsWhite(s) == \A i \in 1..Len(s) : s[i] \in WhiteSpace

\* Two texts that differ at most in the white space around a common text.
DifferOnlyAround(a, e) ==
    \E i1 \in 1..Len(a) + 1, i2 \in 1..Len(e) + 1 :
        \E j1 \in i1 - 1..Len(a), j2 \in i2 - 1..Len(e) :
            /\ SubSeq(a, i1, j1) = SubSeq(e, i2, j2)
            /\ IsWhite(SubSeq(a, 1, i1 - 1)) /\ IsWhite(SubSeq(a, j1 + 1, Len(a)))
            /\ IsWhite(SubSeq(e, 1, i2 - 1)) /\ IsWhite(SubSeq(e, j2 + 1, Len(e)))

\* C7: for a child that exited with success in time, the status is AC when the
\* output and the expected output differ at most in the white space around
\* them, and WA when they differ anywhere else, white space inside included.
C7_Thm ==
    cmp_status # "none" =>
        /\ cmp_status \in {"AC", "WA"}
        /\ cmp_status = "AC" <=> DifferOnlyAround(from_utf8_lossy(cmp_actual), cmp_expected)

\* C7 witness: an output that differs from the expected one by a line break
\* inside it has been judged WA.
C7_Witness ==
    /\ cmp_status = "WA"
    /\ cmp_actual = <<"2", "\n", "2">>
    /\ cmp_expected = <<"2", "2">>

\* return_results has returned Ok(results) to execute.
ReturnedResults == pc = "summary" \/ (pc = "done" /\ ret \in {Ok, SuiteFailed})

\* C8: the results name the fixtures in the order of test_cases, one result per
\* fixture evaluated so far, and when return_results has returned them there is
\* one per fixture collected, whatever the statuses.
C8_Thm ==
    /\ Len(results) = idx
    /\ idx <= Len(test_cases)
    /\ \A i \in 1..Len(results) : results[i].test_case_name = test_cases[i][1]
    /\ ReturnedResults => Len(results) = Len(test_cases)

\* C8 witness: two fixtures collected in the order 2, 1; the first evaluated
\* was not AC, and both have their result.
C8_Witness ==
    /\ pc = "summary"
    /\ Len(results) = 2
    /\ results[1].status \in {"WA", "TLE", "RE"}
    /\ results[1].test_case_name = File(2, "in")
    /\ results[2].test_case_name = File(1, "in")

\* C9: when the timeout branch has ended the loop the child is not running any
\* more; no child of a fixture that has its result is running, and none at all
\* once return_results has returned the results.
C9_Thm ==
    /\ (pc = "after_loop" /\ execution_result.msg = "Execution timed out") =>
            (child # "running" /\ cur \notin alive)
    /\ \A i \in 1..Len(results) : i \notin alive
    /\ ReturnedResults => alive = {}

\* C9 witness: the loop of the second fixture has just killed a child that was
\* still running when the timeout was exceeded.
C9_Witness ==
    /\ pc = "after_loop"
    /\ child = "killed"
    /\ idx = 1
    /\ execution_result.msg = "Execution timed out"

\* C10: the supervision loop, once entered, is eventually left.
C10_Thm == (pc \in LoopPcs) ~> (pc \notin LoopPcs)

\* C10 witness: a child that never exited; the loop slept, and was left by the
\* timeout branch.
C10_Witness ==
    /\ pc = "after_loop"
    /\ child = "killed"
    /\ timeout = SleepMs
    /\ elapsed > timeout

\* execute has returned or panicked; the process may have ended since.
Finished == pc \in {"done", "exited"}

\* The step in which collect_test_cases goes through the entries read_dir gave.
CollectStep == pc = "collect_entries" /\ pc' # "collect_entries"

\* The stems that have both their .in and their .out among the entries.
PairedStems(l) ==
    {f.stem : f \in {g \in Range(l) : g.ext = "in" /\ File(g.stem, "out") \in Range(l)}}

\* C11: collect_test_cases ends with Ok and with exactly one (input, output)
\* pair per stem that has both its .in and its .out in tests/; each input file
\* without its output is warned about and is in no pair; no result is ever
\* recorded for such a file, and the verdict returned is Ok exactly when the
\* results of the paired fixtures are all AC.
C11_Thm ==
    /\ [][CollectStep =>
            /\ pc' = "load_problem_timeout_settings"
            /\ ret' = NoRet
            /\ Range(test_cases') =
                    {<<File(st, "in"), File(st, "out")>> : st \in PairedStems(entries)}
            /\ Len(test_cases') = Cardinality(PairedStems(entries))
            /\ warnings' = {f \in Range(entries) :
                                f.ext = "in" /\ f.stem \notin PairedStems(entries)}]_vars
    /\ [](/\ \A i \in 1..Len(test_cases) : test_cases[i][1] \notin warnings
          /\ \A i \in 1..Len(results) : results[i].test_case_name \notin warnings
          /\ (Finished /\ ret \in {Ok, SuiteFailed}) =>
                /\ Len(results) = Len(test_cases)
                /\ ret = Ok <=> EveryResultAC)

\* C11 witness: tests/ held sample_1.in, sample_1.out and a sample_2.in with
\* no output; the one pair was run and judged AC, and execute returned Ok.
C11_Witness ==
    /\ pc = "done"
    /\ ret = Ok
    /\ warnings = {File(2, "in")}
    /\ Len(results) = 1
    /\ results[1].test_case_name = File(1, "in")

\* The statements of return_results from the for loop on, and the summary.
ResolvedPcs == TimedPcs \cup {"for", "start_time", "summary"}

\* C12, as claimed: a manifest that parses but has no timeout table, or a
\* table with no (integer) entry for the problem, does not make the run fail:
\* the run goes on, and its fixtures are held to 2000 ms.
C12_Claim ==
    /\ ret # Err("Timeout section not found in Cargo.toml")
    /\ ret # Panic("called Option::unwrap() on a None value")
    /\ (pc \in ResolvedPcs /\ ProblemName \notin DOMAIN timeout_settings) => timeout = 2000

\* C13: when cargo build has reported failure, execute has returned the error
\* "Compilation failed" in that very step; the build was run once and is not
\* run again, no fixture was collected, no directory was listed, and no child
\* of the solution is ever spawned.
C13_Thm ==
    /\ Len(builds) <= 1
    /\ (builds # <<>> /\ builds[1] = "failure") =>
            /\ Finished
            /\ ret = Err("Compilation failed")
            /\ test_cases = <<>>
            /\ entries = <<>>
            /\ warnings = {}
            /\ spawned = 0
            /\ alive = {}
            /\ results = <<>>

\* C13 witness: the one build failed and execute has returned its error.
C13_Witness ==
    /\ pc = "done"
    /\ builds = <<"failure">>
    /\ ret = Err("Compilation failed")

\* C14, as claimed: when the executable of the problem is not found, execute
\* returns that as an error value and does not panic.
C14_Claim ==
    ret.msg = "Executable for problem not found" => ret.kind = "Err"

\* The statements of execute up to the reading of Cargo.toml.
BeforeManifestPcs ==
    {"find_problem_directory", "compile", "collect_test_cases", "collect_entries",
     "load_problem_timeout_settings"}

\* C15: with a Cargo.toml that is missing or does not parse, execute never
\* gets past load_problem_timeout_settings: it ends by returning an error, no
\* child of the solution is spawned and no result is recorded.
C15_Thm ==
    cargo_toml # "readable" =>
        /\ pc \in BeforeManifestPcs \cup {"done", "exited"}
        /\ Finished => ret.kind = "Err"
        /\ parsed = NoManifest
        /\ spawned = 0
        /\ alive = {}
        /\ results = <<>>

\* C15 witness: fixtures were collected, Cargo.toml did not parse, and execute
\* has returned the error.
C15_Witness ==
    /\ pc = "done"
    /\ cargo_toml = "unparsable"
    /\ test_cases # <<>>
    /\ ret = Err("Cargo.toml cannot be parsed")

\* C16, as claimed: load_problem_timeout_settings returns an error when the
\* timeout section is no table, and when it is a table holding a value that
\* is no integer.
C16_Claim ==
    [][(pc = "timeout_section"
            /\ \/ parsed.state = "not_table"
               \/ parsed.state = "table" /\ \E e \in parsed.table : ~e.int)
        => (pc' = "done" /\ ret'.kind = "Err")]_vars

\* What execute returns for a directory that is not there: the error of
\* find_problem_directory, or the one of read_dir.
DirectoryNotFound == {Err("Directory does not exist"), Err("No such file or directory")}

\* C17, as claimed: when the problem directory or its tests subdirectory does
\* not exist, what execute returns is a directory-not-found error.
C17_Claim ==
    (Finished /\ (~problem_dir \/ ~tests_dir)) => ret \in DirectoryNotFound

\* C17, amended: without the problem directory execute returns the error of
\* find_problem_directory in its first step; without the tests subdirectory it
\* returns an error, which is the not-found error of read_dir when cargo build
\* could be run and succeeded, and the error of the build otherwise; in both
\* cases no child of the solution is spawned and no result is recorded.
C17_Thm ==
    /\ (~problem_dir /\ pc # "find_problem_directory") =>
            (Finished /\ ret = Err("Directory does not exist") /\ builds = <<>>)
    /\ (problem_dir /\ ~tests_dir /\ Finished) =>
            /\ ret.kind = "Err"
            /\ builds = <<"success">> <=> ret = Err("No such file or directory")
    /\ (~problem_dir \/ ~tests_dir) =>
            /\ pc \in {"find_problem_directory", "compile", "collect_test_cases",
                        "done", "exited"}
            /\ test_cases = <<>>
            /\ spawned = 0
            /\ results = <<>>

\* C17 witness: the build succeeded, tests/ was not there, and execute has
\* returned the error of read_dir.
C17_Witness ==
    /\ pc = "done"
    /\ problem_dir
    /\ ~tests_dir
    /\ builds = <<"success">>
    /\ ret = Err("No such file or directory")

\* C18, as claimed: once the cargo-atc process has ended, its exit status is
\* success exactly when execute returned Ok, that is when every case was AC.
C18_Claim ==
    pc = "exited" => (exit_code = Some(0) <=> ret = Ok)

\* C19: when the build succeeded, the executable is there, the timeout table
\* has an entry for the problem and no fixture pair was collected, the for
\* loop is not entered, no child is spawned, there is no result, and what
\* execute returns is Ok.
C19_Thm ==
    (/\ builds = <<"success">>
     /\ executable
     /\ ProblemName \in DOMAIN timeout_settings
     /\ test_cases = <<>>) =>
        /\ pc \in {"return_results", "for", "summary", "done", "exited"}
        /\ results = <<>>
        /\ spawned = 0
        /\ Finished => ret = Ok

\* C19 witness: tests/ held sample_1.in alone; execute has returned Ok with
\* no result.
C19_Witness ==
    /\ pc = "done"
    /\ ret = Ok
    /\ warnings = {File(1, "in")}
    /\ test_cases = <<>>
    /\ results = <<>>
    /\ ProblemName \in DOMAIN timeout_settings

\* C20: the limit is assigned once, on entering return_results, from the entry
\* of the problem; every fixture is held to it: the loop takes its timeout
\* branch exactly when the clock exceeds that entry, and the choice between
\* TLE and RE is made against it, whatever entry the table holds under the
\* fixture's own name.
C20_Thm ==
    /\ [](pc \in ResolvedPcs =>
            (ProblemName \in DOMAIN timeout_settings
                /\ timeout = timeout_settings[ProblemName]))
    /\ [][/\ timeout' # timeout => (pc = "return_results" /\ pc' = "for")
          /\ (pc = "loop" /\ pc' # "loop") =>
                (pc' = "after_loop" <=> elapsed > timeout_settings[ProblemName])
          /\ (ClassifyStep /\ execution_result.kind = "Err") =>
                (Pushed.status = "TLE" <=> elapsed > timeout_settings[ProblemName])]_vars

\* C20 witness: the table gives sample_1.in a limit of its own, below the
\* problem's; the child of sample_1.in is polled after that limit has passed.
C20_Witness ==
    /\ pc = "try_wait"
    /\ test_cases[cur][1] = File(1, "in")
    /\ FixtureKey \in DOMAIN timeout_settings
    /\ timeout_settings[FixtureKey] < timeout
    /\ elapsed > timeout_settings[FixtureKey]

\* The evaluation of one fixture, from the start of the clock to the result.
FixturePcs == TimedPcs \cup {"start_time"}

\* C23: at most one child of the solution is running at any time, and it is
\* the one of the fixture under evaluation; a child is spawned only when no
\* child is running and every fixture before it has its result.
C23_Thm ==
    /\ [](/\ Cardinality(alive) <= 1
          /\ alive \subseteq {cur}
          /\ spawned <= Len(results) + 1)
    /\ [][spawned' # spawned =>
            /\ spawned' = spawned + 1
            /\ alive = {}
            /\ Len(results) = spawned
            /\ alive' = {Len(results) + 1}]_vars

\* C23 witness: the child of the second fixture is running, the result of the
\* first recorded, after a first child that had to be killed.
C23_Witness ==
    /\ pc = "write"
    /\ alive = {2}
    /\ spawned = 2
    /\ Len(results) = 1
    /\ results[1].status = "TLE"

\* C24: whenever the supervision loop runs, and when it has ended, the whole
\* input has been written and the supervisor's end of the pipe is closed.
C24_Thm ==
    /\ pc \in LoopPcs \cup {"after_loop"} => (written /\ stdin = "closed")
    /\ pc = "write" => (~written /\ stdin = "open")

\* C24 witness: the first poll of a child that is still running, its input
\* delivered and its standard input closed.
C24_Witness ==
    /\ pc = "try_wait"
    /\ child = "running"
    /\ elapsed = 0
    /\ written
    /\ stdin = "closed"

\* C25, as claimed: the clock the timeout is measured against starts after the
\* child is spawned and its input written, so no time has been counted while
\* the supervisor spawns the child or writes the input.
C25_Claim ==
    pc \in {"spawn", "write"} => elapsed = 0

\* C26: a result with status RE has an error message, which is not empty; a
\* result with status AC, WA or TLE has none.
C26_Thm ==
    \A i \in 1..Len(results) :
        /\ results[i].status \in {"AC", "WA", "TLE", "RE"}
        /\ results[i].status = "RE" <=> results[i].error_message # None
        /\ results[i].error_message # Some("")

\* C26 witness: a run with an RE result carrying "Execution failed" and a TLE
\* result carrying nothing.
C26_Witness ==
    /\ Len(results) = 2
    /\ results[1].status = "RE"
    /\ results[1].error_message = Some("Execution failed")
    /\ results[2].status = "TLE"
    /\ results[2].error_message = None

\* C27: every step leaves the results recorded so far as they are, and adds at
\* most one result, at the end.
C27_Thm ==
    [][/\ Len(results') \in {Len(results), Len(results) + 1}
       /\ \A i \in 1..Len(results) : results'[i] = results[i]]_vars

\* C27 witness: a second result has been added behind a first one that is WA.
C27_Witness ==
    /\ pc = "for"
    /\ Len(results) = 2
    /\ results[1].status = "WA"
    /\ results[2].status = "AC"

\* C28: a loop ended by its timeout branch gives TLE with no error message and
\* an execution_time above the timeout; every TLE result has an
\* execution_time above the timeout.
C28_Thm ==
    /\ [][(ClassifyStep /\ execution_result = ErrResult("Execution timed out")) =>
            /\ Pushed.status = "TLE"
            /\ Pushed.error_message = None
            /\ Pushed.execution_time > timeout]_vars
    /\ [](\A i \in 1..Len(results) :
            results[i].status = "TLE" => results[i].execution_time > timeout)

\* C28 witness: the timeout branch was taken as soon as the clock was past the
\* timeout, and the result is TLE with that reading as its execution_time.
C28_Witness ==
    /\ pc = "for"
    /\ Len(results) = 1
    /\ results[1].status = "TLE"
    /\ results[1].execution_time = timeout + Quantum
    /\ spawned = 1
    /\ alive = {}

\* C29, as claimed: the evaluation of a fixture always comes to an end, by a
\* result or by the end of the run, whether or not the child reads its input.
C29_Claim == (pc \in FixturePcs) ~> (pc \notin FixturePcs)

\* The stored session is one a run at time now may reuse: not older than
\* SESSION_EXPIRY seconds, and not dated after now.
StoredValid ==
    /\ session_file.state = "session"
    /\ session_file.last_login_time <= now
    /\ now - session_file.last_login_time <= SESSION_EXPIRY

\* C21: for a session whose last_login_time is not after now, is_expired is
\* true exactly when now - last_login_time exceeds SESSION_EXPIRY; a session
\* exactly SESSION_EXPIRY seconds old is not expired.
C21_Thm ==
    [][(spc = "is_expired" /\ session[1].last_login_time <= now)
           => /\ expired' = Some(now - session[1].last_login_time > SESSION_EXPIRY)
              /\ (now - session[1].last_login_time = SESSION_EXPIRY
                      => expired' = Some(FALSE))]_vars

\* A session exactly SESSION_EXPIRY seconds old has been found not expired.
C21_Witness ==
    /\ spc = "login_done"
    /\ session # None
    /\ now - session[1].last_login_time = SESSION_EXPIRY
    /\ expired = Some(FALSE)

\* C22: submit_code fails unless the response to the submit request has the
\* status 302 Found: it returns Ok exactly for that status.
C22_Claim ==
    (spc = "done" /\ response # None)
        => (submit_ret = Ok <=> response = Some(StatusFound))

\* C30: with a stored session that is still valid, login::execute returns Ok
\* without asking for credentials, without a request to the site and without
\* writing the session file; the session file is written only by the save
\* that follows a login_to_atcoder that succeeded, and a failed login leaves
\* it as it was.
C30_Thm ==
    /\ [](    (StoredValid /\ saves = 0 /\ spc \notin {"load", "is_expired"})
           => /\ ~prompted
              /\ contacted \cap LoginRequests = {}
              /\ login_ret = Ok)
    /\ [][/\ session_file' # session_file => spc = "save"
          /\ spc' = "save" => /\ spc = "login_to_atcoder"
                              /\ LoginRequests \subseteq contacted'
                              /\ session' = Some([last_login_time |-> now])
          /\ (spc = "login_to_atcoder" /\ spc' # "save")
                 => /\ session_file' = session_file
                    /\ login_ret' # Ok
          /\ saves' # saves => /\ spc = "save"
                               /\ session_file'.state = "session"
                               /\ session_file'.last_login_time = now]_vars

\* A run of the login command that found a valid session has returned Ok and
\* has neither prompted, nor sent a request, nor written the file.
C30_Witness ==
    /\ command = "login"
    /\ spc = "done"
    /\ StoredValid
    /\ expired = Some(FALSE)
    /\ login_ret = Ok
    /\ ~prompted
    /\ contacted = {}
    /\ saves = 0

====
